---- MODULE Spec2Model ----
(***************************************************************************)
(* Model of downloader.py (flex_extract_helper): a date range is split     *)
(* into chunks, one job per chunk is prepared (skipping chunks whose       *)
(* job_done record exists), and the jobs are run by a multiprocessing      *)
(* Pool, each job being a subprocess call with time-out and retries.       *)
(*                                                                         *)
(* A date string "YYYYMMDD" is the integer YYYYMMDD; a datetime is the     *)
(* number of days since the first of January of the first year of Years;   *)
(* a timedelta is a number of days.  A string that is built from parts     *)
(* (a path, a job id) is the sequence of its parts.                        *)
(*                                                                         *)
(* mergeContinuousTime of check_files.py is modelled too: there a datetime *)
(* is a number of whole hours.                                             *)
(***************************************************************************)
EXTENDS Integers, Sequences, FiniteSets, TLC

\* ------------------------------------------------------------------ bounds
\* Longest date range (in days after the start date) the inputs are drawn from.
MaxSpan == 12
\* Largest days_per_job the inputs are drawn from.
MaxChunk == 4
\* Most chunks of a date range that is run by the Pool.
MaxJobs == 2
\* Largest n_workers.
MaxWorkers == 2
\* Largest time_out_retry.
MaxRetry == 1
\* Most calls of main over the same file system.
MaxInvocations == 2
\* Largest time_out_retry of a single job run alone.
MaxRetryAlone == 3
\* Most jobs of a batch that pool.map cuts into chunks of more than one job.
MaxBatch == 9
\* Longest time_list given to mergeContinuousTime.
MaxPoints == 3

\* ---------------------------------------------------------------- calendar
Years == 2012..2014

IsLeap(y) == (y % 4 = 0 /\ y % 100 # 0) \/ y % 400 = 0

DaysInMonth(y, m) ==
    IF m = 2 THEN (IF IsLeap(y) THEN 29 ELSE 28)
    ELSE IF m \in {4, 6, 9, 11} THEN 30 ELSE 31

DaysInYear(y) == IF IsLeap(y) THEN 366 ELSE 365

RECURSIVE DaysBeforeYear(_)
DaysBeforeYear(y) ==
    IF y <= 2012 THEN 0 ELSE DaysBeforeYear(y - 1) + DaysInYear(y - 1)

RECURSIVE DaysBeforeMonth(_, _)
DaysBeforeMonth(y, m) ==
    IF m <= 1 THEN 0 ELSE DaysBeforeMonth(y, m - 1) + DaysInMonth(y, m - 1)

\* datetime.strptime(s, '%Y%m%d'): the day number of a date string.
strptime(s) ==
    LET y == s \div 10000
        m == (s \div 100) % 100
        d == s % 100
    IN  DaysBeforeYear(y) + DaysBeforeMonth(y, m) + (d - 1)

\* t.strftime('%Y%m%d'): the date string of a day number.
strftime(t) ==
    LET y == CHOOSE yy \in Years :
                 DaysBeforeYear(yy) <= t /\ t < DaysBeforeYear(yy) + DaysInYear(yy)
        r == t - DaysBeforeYear(y)
        m == CHOOSE mm \in 1..12 :
                 DaysBeforeMonth(y, mm) <= r
                 /\ r < DaysBeforeMonth(y, mm) + DaysInMonth(y, mm)
        d == r - DaysBeforeMonth(y, m) + 1
    IN  y * 10000 + m * 100 + d

\* --------------------------------------------------------- breakDownDates
\* (Only the first of the two raise statements.)
breakDownDatesRaisesChunkOnly(start_date, end_date, days_per_job) ==
    days_per_job < 1

\* The two raise statements of breakDownDates.
breakDownDatesRaises(start_date, end_date, days_per_job) ==
    \/ days_per_job < 1
    \/ strptime(start_date) > strptime(end_date)

\* (The loop without the clamp of t2 to t_end.)
RECURSIVE breakDownLoopNoClamp(_, _, _, _, _)
breakDownLoopNoClamp(t1, t2, t_end, dt, date_list) ==
    IF t1 <= t_end
    THEN breakDownLoopNoClamp(t2 + 1, (t2 + 1) + dt, t_end, dt,
                              Append(date_list, <<strftime(t1), strftime(t2)>>))
    ELSE date_list

\* The while loop of breakDownDates: t1, t2 the running chunk, dt = days_per_job - 1.
RECURSIVE breakDownLoop(_, _, _, _, _)
breakDownLoop(t1, t2, t_end, dt, date_list) ==
    IF t1 <= t_end
    THEN LET t2c == IF t2 > t_end THEN t_end ELSE t2
         IN  breakDownLoop(t2c + 1, (t2c + 1) + dt, t_end, dt,
                           Append(date_list, <<strftime(t1), strftime(t2c)>>))
    ELSE date_list

\* (Chunks one day too long: dt taken as days_per_job.)
breakDownDatesLong(start_date, end_date, days_per_job) ==
    LET t_start == strptime(start_date)
        t_end == strptime(end_date)
        dt == days_per_job
    IN  breakDownLoop(t_start, t_start + dt, t_end, dt, <<>>)

breakDownDates(start_date, end_date, days_per_job) ==
    LET t_start == strptime(start_date)
        t_end == strptime(end_date)
        dt == days_per_job - 1
    IN  breakDownLoop(t_start, t_start + dt, t_end, dt, <<>>)

\* ------------------------------------------------------- strings and paths
DigitChar == <<"0", "1", "2", "3", "4", "5", "6", "7", "8", "9">>

\* str(n) for n >= 0: the sequence of the decimal digits of n.
RECURSIVE str(_)
str(n) == IF n < 10 THEN <<DigitChar[n + 1]>>
          ELSE str(n \div 10) \o <<DigitChar[(n % 10) + 1]>>

\* s.rjust(width, '0')
RECURSIVE rjust(_, _)
rjust(s, width) == IF Len(s) >= width THEN s ELSE rjust(<<"0">> \o s, width)

\* os.path.join(a, b) for a relative b.
join(a, b) == a \o <<"/">> \o b

\* os.path.split(p): (head, tail) around the last separator of p.
split(p) ==
    LET k == CHOOSE i \in 1..Len(p) :
                 p[i] = "/" /\ \A j \in (i + 1)..Len(p) : p[j] # "/"
    IN  <<SubSeq(p, 1, k - 1), SubSeq(p, k + 1, Len(p))>>

\* The globals of the script (other than the dates, the numbers and the flags,
\* which are arguments of main drawn in Init).
FLEX_EXTRACT_FOLDER == <<"flex_extract">>
OUTPUTDIR == <<"flexpart_erai">>
CONTROL_FILE == <<"CONTROL_EI.public">>
JOB_PREFIX == <<"EI_job">>
TIME_OUT_RETRY == 3

\* time_out is None or a number of seconds; the model keeps only which of the two.
None == "None"
Seconds == "seconds"

\* ---------------------------------------------------------- CONTROL files
\* A CONTROL file is the sequence of its lines; a line "NAME<spaces>digits tail" is
\* [name, nsp (the number of spaces after the name), val (the number the digits
\* spell, 0 for no digit), tail].
ctrlLine(name, date) == [name |-> name, nsp |-> 1, val |-> date, tail |-> ""]

\* re '^NAME +(\d{8})' matches the line: the name at the start of the line, at least
\* one space, eight digits.
lineMatches(name, line) ==
    line.name = name /\ line.nsp >= 1 /\ line.val >= 10000000

\* pattern.search(ctrl_str) finds a match.
patternFound(name, ctrl_str) ==
    \E i \in 1..Len(ctrl_str) : lineMatches(name, ctrl_str[i])

\* pattern.sub('NAME %s' % date, ctrl_str): every match is replaced, the rest of
\* its line is kept.
patternSub(name, date, ctrl_str) ==
    [i \in 1..Len(ctrl_str) |->
        IF lineMatches(name, ctrl_str[i])
        THEN [ctrl_str[i] EXCEPT !.nsp = 1, !.val = date]
        ELSE ctrl_str[i]]

\* (A new line added at the end of the file instead.)
replaceFieldAtEnd(name, date, ctrl_str) ==
    IF patternFound(name, ctrl_str)
    THEN patternSub(name, date, ctrl_str)
    ELSE ctrl_str \o <<ctrlLine(name, date)>>

\* One field: lines 166 to 172 for END_DATE, lines 174 to 180 for START_DATE.
replaceField(name, date, ctrl_str) ==
    IF patternFound(name, ctrl_str)
    THEN patternSub(name, date, ctrl_str)
    ELSE <<ctrlLine(name, date)>> \o ctrl_str

replaceControlDates(ctrl_str, start_date, end_date) ==
    replaceField("START_DATE", start_date,
                 replaceField("END_DATE", end_date, ctrl_str))

\* ------------------------------------------------- checkExeFile, checkControlFile
exeFile == join(FLEX_EXTRACT_FOLDER, <<"Source/Python/submit.py">>)
ctrlFolder == join(FLEX_EXTRACT_FOLDER, <<"Run/Control">>)
ctrlFile == join(ctrlFolder, CONTROL_FILE)

\* ------------------------------------------------------------------- state
VARIABLES
    argv,       \* the arguments main was called with
    DRY,        \* the global DRY of the module
    files,      \* the file system: path |-> content of every existing file
    dirs,       \* the file system: the existing output directories
    pc,         \* where main is: "start", "dates", "checked", "prepared", "map",
                \*   "done", "raised"
    date_list,  \* main's date_list
    job_list,   \* main's job_list
    taskq,      \* Pool: the chunks of job_list not yet taken by a worker
    worker,     \* Pool: the state of each worker process
    taskres,    \* Pool: chunk (its first job) |-> <<succeeded, values>>
    results,    \* what pool.map returned to main
    launched,   \* history: job |-> the number of processes Popen started for it
    trace,      \* history: job |-> the outcome of each attempt so far
    zeroExits,  \* history: the output directories whose job had a process exit with 0
    doneAtStart,\* history: the record files there were when main was called
    invocation, \* the number of calls of main so far
    calls,      \* history: job |-> the number of calls of launchJob for it
    written,    \* history: the files this call of main has opened for writing
    stray,      \* the processes launchJob has let go of (killed after a time-out, or
                \*   left behind by an error) that have not ended yet
    time_list,  \* check_files.py: the argument time_list of mergeContinuousTime
    time_step,  \* check_files.py: its argument time_step
    time_interval, \* check_files.py: what it returned
    mergepc     \* check_files.py: where the call is: "idle" (downloader.py is run),
                \*   "start", "done", "raised"

vars == <<argv, DRY, files, dirs, pc, date_list, job_list, taskq, worker, taskres,
          results, launched, trace, zeroExits, doneAtStart, invocation, calls,
          written, stray, time_list, time_step, time_interval, mergepc>>

\* The variables of check_files.py, and those of downloader.py.
checkVars == <<time_list, time_step, time_interval, mergepc>>
mainVars == <<argv, DRY, files, dirs, pc, date_list, job_list, taskq, worker, taskres,
              results, launched, trace, zeroExits, doneAtStart, invocation, calls,
              written, stray>>

\* ----------------------------------------------------------------- isSkip
recFile(outputdir) == join(outputdir, <<"job_done">>)

isRecFile(p) == p[Len(p)] = "job_done"

\* (A test for a file of another name than the one launchJob writes.)
isSkipOtherName(outputdir) == join(outputdir, <<"job.done">>) \in DOMAIN files

isSkip(outputdir) == recFile(outputdir) \in DOMAIN files

\* ---------------------------------------------------------- prepareJobList
\* (An id that counts on from the number of record files there are.)
jobIdShifted(i, n) ==
    rjust(str(i - 1 + Cardinality({p \in DOMAIN files : isRecFile(p)})), Len(str(n)))

\* idii: the id of the job of date_list[i] (enumerate counts from 0).
jobId(i, n) == rjust(str(i - 1), Len(str(n)))

dateName(dateii) == str(dateii[1]) \o <<"-">> \o str(dateii[2])

\* outputdirii
jobDir(i, dl) ==
    join(OUTPUTDIR, JOB_PREFIX \o <<"_">> \o jobId(i, Len(dl)) \o <<"_">> \o dateName(dl[i]))

jobTmpDir(i, dl) == jobDir(i, dl) \o <<"_tmp">>
jobOutDir(i, dl) == jobDir(i, dl) \o <<"_out">>

\* (A copy named without the job id.)
jobCtrlFileNoId(i, dl, ctrl_file) ==
    join(split(ctrl_file)[1], split(ctrl_file)[2] \o <<"_">> \o JOB_PREFIX)

\* ctrl_fileii, the copy of the CONTROL file of a job.
jobCtrlFile(i, dl, ctrl_file) ==
    join(split(ctrl_file)[1],
         split(ctrl_file)[2] \o <<"_">> \o JOB_PREFIX \o <<"_">> \o jobId(i, Len(dl)))

jobLogFile(i, dl) == JOB_PREFIX \o <<"_">> \o jobId(i, Len(dl)) \o <<".txt">>

\* (A dict that names the default CONTROL file whatever copy_control is.)
jobDictShared(i, dl, ctrl_file, time_out, time_out_retry, copy_control) ==
    [args |-> << <<"python">>, <<"-u">>, exeFile,
                 <<"--controlfile">>, ctrl_file,
                 <<"--inputdir">>, jobTmpDir(i, dl),
                 <<"--outputdir">>, jobOutDir(i, dl) >>,
     job_dates |-> <<jobId(i, Len(dl)), dl[i][1], dl[i][2]>>,
     timeout |-> time_out,
     logfile |-> jobLogFile(i, dl),
     retry |-> time_out_retry]

\* The dict of one job.
jobDict(i, dl, ctrl_file, time_out, time_out_retry, copy_control) ==
    [args |-> << <<"python">>, <<"-u">>, exeFile,
                 <<"--controlfile">>,
                 IF copy_control THEN jobCtrlFile(i, dl, ctrl_file) ELSE ctrl_file,
                 <<"--inputdir">>, jobTmpDir(i, dl),
                 <<"--outputdir">>, jobOutDir(i, dl) >>,
     job_dates |-> <<jobId(i, Len(dl)), dl[i][1], dl[i][2]>>,
     timeout |-> time_out,
     logfile |-> jobLogFile(i, dl),
     retry |-> time_out_retry]

\* (Every position added, done or not.)
addedJobsAll(dl) == [i \in 1..Len(dl) |-> i]

\* The positions of date_list whose job is added (not skipped), in order.
addedJobs(dl) ==
    SelectSeq([i \in 1..Len(dl) |-> i], LAMBDA i : ~isSkip(jobOutDir(i, dl)))

\* The job_list prepareJobList returns.
prepareJobList(ctrl_file, dl, time_out, time_out_retry, copy_control) ==
    LET added == addedJobs(dl)
    IN  [k \in 1..Len(added) |->
            jobDict(added[k], dl, ctrl_file, time_out, time_out_retry, copy_control)]

\* The files prepareJobList opens for writing (line 306): with copy_control, the
\* copy of the CONTROL file of every added job.
copiedFiles(ctrl_file, dl, copy_control) ==
    LET added == addedJobs(dl)
    IN  IF copy_control
        THEN {jobCtrlFile(added[k], dl, ctrl_file) : k \in 1..Len(added)}
        ELSE {}

\* The file system after prepareJobList: every copy is written.
prepareJobListFiles(ctrl_file, dl, copy_control) ==
    LET added == addedJobs(dl)
        ctrl_str == files[ctrl_file]
        new == copiedFiles(ctrl_file, dl, copy_control)
        at(p) == CHOOSE k \in 1..Len(added) : jobCtrlFile(added[k], dl, ctrl_file) = p
    IN  [p \in DOMAIN files \cup new |->
            IF p \in new
            THEN replaceControlDates(ctrl_str, dl[added[at(p)]][1], dl[added[at(p)]][2])
            ELSE files[p]]

\* args[args.index(flag)+1]
argAfter(args, flag) ==
    args[(CHOOSE i \in 1..Len(args) : args[i] = flag /\ \A j \in 1..(i - 1) : args[j] # flag) + 1]

\* ------------------------------------------------------------- Pool.map
\* Pool.map cuts job_list into chunks of chunksize jobs, one task per chunk.
chunksize(n, n_workers) ==
    IF n = 0 THEN 0
    ELSE (n \div (n_workers * 4)) + (IF n % (n_workers * 4) # 0 THEN 1 ELSE 0)

nchunks(n, n_workers) ==
    IF n = 0 THEN 0
    ELSE LET cs == chunksize(n, n_workers)
         IN  (n \div cs) + (IF n % cs # 0 THEN 1 ELSE 0)

\* The jobs (positions of job_list) of chunk c.
chunkJobs(c, n, n_workers) ==
    LET cs == chunksize(n, n_workers)
        first == (c - 1) * cs
        len == IF n - first < cs THEN n - first ELSE cs
    IN  [i \in 1..len |-> first + i]

Chunk(c) == chunkJobs(c, Len(job_list), argv.n_workers)

idleWorker == [st |-> "idle", chunk |-> 0, pos |-> 0, tried |-> 0, ret |-> 0, vals |-> <<>>]

\* The job a worker is in.
jobOf(w) == Chunk(worker[w].chunk)[worker[w].pos]

\* The chunk of job k and its place in it.
chunkOfJob(k) == ((k - 1) \div chunksize(Len(job_list), argv.n_workers)) + 1
placeOfJob(k) == k - (chunkOfJob(k) - 1) * chunksize(Len(job_list), argv.n_workers)

\* The values launchJob has returned so far for the jobs of chunk c.
chunkVals(c) ==
    IF c \in DOMAIN taskres THEN taskres[c][2]
    ELSE IF \E w \in DOMAIN worker : worker[w].chunk = c
         THEN worker[CHOOSE w \in DOMAIN worker : worker[w].chunk = c].vals
         ELSE <<>>

\* launchJob has returned for job k, and what it returned.
hasReturned(k) == Len(chunkVals(chunkOfJob(k))) >= placeOfJob(k)
retOf(k) == chunkVals(chunkOfJob(k))[placeOfJob(k)]

\* ---------------------------------------------------------------- launchJob
\* The outcomes of an attempt, as the history trace keeps them.
exited(code) == [what |-> "exit", code |-> code]
timedOut == [what |-> "timeout", code |-> 0]
launchError == [what |-> "launch_error", code |-> 0]
tryError == [what |-> "error", code |-> 0]

\* The return codes the process of a job may exit with.
ExitCodes == {0, 7}

\* open(logfilename, 'w'): the log is created or truncated.
openLog(fs, logfilename) ==
    [p \in DOMAIN fs \cup {logfilename} |-> IF p = logfilename THEN <<>> ELSE fs[p]]

\* (A loop that stops one try short.)
launchJobContinueShort(tried, retry) == tried < retry

\* The test of the while loop.
launchJobContinue(tried, retry) == tried <= retry

\* The value of tried after a time-out.
afterTimeout(tried) == tried + 1

\* (A record written after a 0 whether the output directory exists or not.)
writesRecordNoDirTest(ret, outputdir, ds) == ret = 0

\* (A record written after any exit.)
writesRecordAnyCode(ret, outputdir, ds) == outputdir \in ds

\* The else branch of the try: the record file is written iff ret is 0 and the
\* output directory exists.
writesRecord(ret, outputdir, ds) == ret = 0 /\ outputdir \in ds

writeRecord(fs, outputdir) ==
    [p \in DOMAIN fs \cup {recFile(outputdir)} |->
        IF p = recFile(outputdir) THEN <<"job done.">> ELSE fs[p]]

\* (ret left as it was.)
exitValueStale(ret, code) == ret

\* Line 82: ret=proc.wait(timeout=timeout), when the process exits with code.
exitValue(ret, code) == code

\* (A break that is only reached after a 0.)
breaksAfterZero(ret) == ret = 0

\* Line 99: the loop is left after any exit of the process, whatever its code.
breaksAfterExit(ret) == TRUE

\* launchJob returns r in worker w, with the file system fs and the files wr written
\* so far: the worker goes on with the next job of its chunk (launchJob is called for
\* it and opens its log) or hands the chunk's values over.
Returns(w, r, fs, wr) ==
    LET me == worker[w]
        ch == Chunk(me.chunk)
        vals == Append(me.vals, r)
    IN  IF me.pos = Len(ch)
        THEN /\ worker' = [worker EXCEPT ![w] = idleWorker]
             /\ taskres' = [c \in DOMAIN taskres \cup {me.chunk} |->
                               IF c = me.chunk THEN <<TRUE, vals>> ELSE taskres[c]]
             /\ files' = fs
             /\ written' = wr
             /\ calls' = calls
        ELSE /\ worker' = [worker EXCEPT ![w] =
                    [st |-> "loop", chunk |-> me.chunk, pos |-> me.pos + 1,
                     tried |-> 0, ret |-> 1, vals |-> vals]]
             /\ taskres' = taskres
             /\ files' = openLog(fs, job_list[ch[me.pos + 1]].logfile)
             /\ written' = wr \cup {job_list[ch[me.pos + 1]].logfile}
             /\ calls' = [calls EXCEPT ![ch[me.pos + 1]] = @ + 1]

\* ------------------------------------------------------------------ actions
\* main, line 403: breakDownDates.
GetDateList ==
    /\ pc = "start"
    /\ IF breakDownDatesRaises(argv.start_date, argv.end_date, argv.days_per_job)
       THEN pc' = "raised" /\ date_list' = date_list
       ELSE /\ pc' = "dates"
            /\ date_list' = breakDownDates(argv.start_date, argv.end_date,
                                           argv.days_per_job)
    /\ UNCHANGED <<argv, DRY, files, dirs, job_list, taskq, worker, taskres, results,
                   launched, trace, zeroExits, doneAtStart, invocation,
                   calls, written, stray,
                   checkVars>>

\* main, lines 406 and 409: checkExeFile and checkControlFile.
CheckFiles ==
    /\ pc = "dates"
    /\ pc' = IF exeFile \in DOMAIN files /\ ctrlFile \in DOMAIN files
             THEN "checked" ELSE "raised"
    /\ UNCHANGED <<argv, DRY, files, dirs, date_list, job_list, taskq, worker, taskres,
                   results, launched, trace, zeroExits, doneAtStart, invocation,
                   calls, written, stray,
                   checkVars>>

\* main, line 412: prepareJobList.
Prepare ==
    /\ pc = "checked"
    /\ pc' = "prepared"
    /\ job_list' = prepareJobList(ctrlFile, date_list, argv.time_out,
                                  argv.time_out_retry, argv.copy_control)
    /\ files' = prepareJobListFiles(ctrlFile, date_list, argv.copy_control)
    /\ written' = written \cup copiedFiles(ctrlFile, date_list, argv.copy_control)
    /\ UNCHANGED <<argv, DRY, dirs, date_list, taskq, worker, taskres, results,
                   launched, trace, zeroExits, doneAtStart, invocation, calls, stray,
                   checkVars>>

\* The test of main, line 416.
isDry == DRY

\* main, lines 416 to 422: the summary only, or the Pool is made and pool.map hands
\* the chunks of job_list to it.
Launch ==
    /\ pc = "prepared"
    /\ IF isDry
       THEN /\ pc' = "done"
            /\ UNCHANGED <<taskq, worker, launched, trace, calls>>
       ELSE /\ pc' = "map"
            /\ taskq' = [c \in 1..nchunks(Len(job_list), argv.n_workers) |-> c]
            /\ worker' = [w \in 1..argv.n_workers |-> idleWorker]
            /\ launched' = [k \in 1..Len(job_list) |-> 0]
            /\ trace' = [k \in 1..Len(job_list) |-> <<>>]
            /\ calls' = [k \in 1..Len(job_list) |-> 0]
    /\ UNCHANGED <<argv, DRY, files, dirs, date_list, job_list, taskres, results,
                   zeroExits, doneAtStart, invocation, written, stray,
                   checkVars>>

\* A worker takes the next chunk and calls launchJob for its first job: the log is
\* opened, tried=0, ret=1. (Idle workers do not differ: the first of them takes it.)
TakeTask(w) ==
    /\ pc = "map"
    /\ worker[w].st = "idle"
    /\ \A v \in 1..(w - 1) : worker[v].st # "idle"
    /\ taskq # <<>>
    /\ taskq' = Tail(taskq)
    /\ worker' = [worker EXCEPT ![w] =
            [st |-> "loop", chunk |-> Head(taskq), pos |-> 1, tried |-> 0,
             ret |-> 1, vals |-> <<>>]]
    /\ files' = openLog(files, job_list[Chunk(Head(taskq))[1]].logfile)
    /\ written' = written \cup {job_list[Chunk(Head(taskq))[1]].logfile}
    /\ calls' = [calls EXCEPT ![Chunk(Head(taskq))[1]] = @ + 1]
    /\ UNCHANGED <<argv, DRY, dirs, pc, date_list, job_list, taskres, results,
                   launched, trace, zeroExits, doneAtStart, invocation, stray,
                   checkVars>>

\* launchJob, lines 77 to 79: the loop goes on and Popen starts the process.
Popen(w) ==
    /\ pc = "map"
    /\ worker[w].st = "loop"
    /\ launchJobContinue(worker[w].tried, job_list[jobOf(w)].retry)
    /\ worker' = [worker EXCEPT ![w].st = "wait"]
    /\ launched' = [launched EXCEPT ![jobOf(w)] = @ + 1]
    /\ UNCHANGED <<argv, DRY, files, dirs, pc, date_list, job_list, taskq, taskres,
                   results, trace, zeroExits, doneAtStart, invocation, calls,
                   written, stray,
                   checkVars>>

\* launchJob, lines 78 to 79: Popen raises (the executable is not found, no process
\* can be made). The call is outside the try: the error leaves launchJob and ends the
\* worker's task, whose other jobs are not run.
PopenRaises(w) ==
    /\ pc = "map"
    /\ worker[w].st = "loop"
    /\ launchJobContinue(worker[w].tried, job_list[jobOf(w)].retry)
    /\ worker' = [worker EXCEPT ![w] = idleWorker]
    /\ taskres' = [c \in DOMAIN taskres \cup {worker[w].chunk} |->
                      IF c = worker[w].chunk THEN <<FALSE, worker[w].vals>>
                      ELSE taskres[c]]
    /\ trace' = [trace EXCEPT ![jobOf(w)] = Append(@, launchError)]
    /\ UNCHANGED <<argv, DRY, files, dirs, pc, date_list, job_list, taskq, results,
                   launched, zeroExits, doneAtStart, invocation, calls, written,
                   stray,
                   checkVars>>

\* launchJob, lines 77 and 101: the loop ends because tried > retry.
LoopEnds(w) ==
    /\ pc = "map"
    /\ worker[w].st = "loop"
    /\ ~launchJobContinue(worker[w].tried, job_list[jobOf(w)].retry)
    /\ Returns(w, worker[w].ret, files, written)
    /\ UNCHANGED <<argv, DRY, dirs, pc, date_list, job_list, taskq, results,
                   launched, trace, zeroExits, doneAtStart, invocation, stray,
                   checkVars>>

\* launchJob, lines 82 and 92 to 101: the process exits with a code (having made its
\* output directory or not); the record file is written after a 0 and launchJob returns.
WaitExits(w, code, made) ==
    /\ pc = "map"
    /\ worker[w].st = "wait"
    /\   LET outputdir == argAfter(job_list[jobOf(w)].args, <<"--outputdir">>)
             ds == IF made THEN dirs \cup {outputdir} ELSE dirs
         IN  /\ dirs' = ds
             /\ trace' = [trace EXCEPT ![jobOf(w)] = Append(@, exited(code))]
             /\ zeroExits' = IF code = 0 THEN zeroExits \cup {outputdir} ELSE zeroExits
             /\ LET ret == exitValue(worker[w].ret, code)
                     fs == IF writesRecord(ret, outputdir, ds)
                           THEN writeRecord(files, outputdir) ELSE files
                     wr == IF writesRecord(ret, outputdir, ds)
                           THEN written \cup {recFile(outputdir)} ELSE written
                 IN  IF breaksAfterExit(ret)
                     THEN Returns(w, ret, fs, wr)
                     ELSE /\ worker' = [worker EXCEPT ![w].st = "loop", ![w].ret = ret]
                          /\ files' = fs
                          /\ taskres' = taskres
                          /\ written' = wr
                          /\ calls' = calls
    /\ UNCHANGED <<argv, DRY, pc, date_list, job_list, taskq, results, launched,
                   doneAtStart, invocation, stray,
                   checkVars>>

\* launchJob, lines 83 to 87: the wait times out; the process is killed and tried
\* counts it. (proc.kill() sends the signal and returns: nothing waits for the
\* process to end.)
WaitTimesOut(w) ==
    /\ pc = "map"
    /\ worker[w].st = "wait"
    /\ job_list[jobOf(w)].timeout # None
    /\ worker' = [worker EXCEPT ![w].st = "loop", ![w].tried = afterTimeout(@)]
    /\ trace' = [trace EXCEPT ![jobOf(w)] = Append(@, timedOut)]
    /\ stray' = stray + 1
    /\ UNCHANGED <<argv, DRY, files, dirs, pc, date_list, job_list, taskq, taskres,
                   results, launched, zeroExits, doneAtStart, invocation, calls,
                   written,
                   checkVars>>

\* launchJob, lines 88 to 91: another exception inside the try; the loop is left and
\* launchJob returns ret as it is. (The process is neither waited for nor killed.)
TryRaises(w) ==
    /\ pc = "map"
    /\ worker[w].st = "wait"
    /\ trace' = [trace EXCEPT ![jobOf(w)] = Append(@, tryError)]
    /\ stray' = stray + 1
    /\ Returns(w, worker[w].ret, files, written)
    /\ UNCHANGED <<argv, DRY, dirs, pc, date_list, job_list, taskq, results,
                   launched, zeroExits, doneAtStart, invocation,
                   checkVars>>

\* A process that launchJob has let go of ends (a killed one, when the signal takes
\* effect).
ProcessEnds ==
    /\ stray > 0
    /\ stray' = stray - 1
    /\ UNCHANGED <<argv, DRY, files, dirs, pc, date_list, job_list, taskq, worker,
                   taskres, results, launched, trace, zeroExits, doneAtStart,
                   invocation, calls, written,
                   checkVars>>

RECURSIVE concatVals(_)
concatVals(c) == IF c = 0 THEN <<>> ELSE concatVals(c - 1) \o taskres[c][2]

\* main, lines 422 to 425: every chunk has ended; pool.map returns the values in the
\* order of job_list, or raises the error of a chunk that failed.
MapReturns ==
    /\ pc = "map"
    /\ DOMAIN taskres = 1..nchunks(Len(job_list), argv.n_workers)
    /\ IF \A c \in DOMAIN taskres : taskres[c][1]
       THEN pc' = "done" /\ results' = concatVals(nchunks(Len(job_list), argv.n_workers))
       ELSE pc' = "raised" /\ results' = results
    /\ UNCHANGED <<argv, DRY, files, dirs, date_list, job_list, taskq, worker, taskres,
                   launched, trace, zeroExits, doneAtStart, invocation, calls,
                   written, stray,
                   checkVars>>

\* The default CONTROL file is changed while the script runs (the case the docstring
\* of prepareJobList speaks of): its contents become ctrl_str.
EditControl(ctrl_str) ==
    /\ ctrlFile \in DOMAIN files
    /\ files[ctrlFile] # ctrl_str
    /\ files' = [files EXCEPT ![ctrlFile] = ctrl_str]
    /\ UNCHANGED <<argv, DRY, dirs, pc, date_list, job_list, taskq, worker, taskres,
                   results, launched, trace, zeroExits, doneAtStart, invocation, calls,
                   written, stray,
                   checkVars>>

\* The script is run again, with the same arguments, over the file system the earlier
\* run left.
Reinvoke ==
    /\ pc \in {"done", "raised"}
    /\ invocation < MaxInvocations
    /\ invocation' = invocation + 1
    /\ pc' = "start"
    /\ date_list' = <<>>
    /\ job_list' = <<>>
    /\ taskq' = <<>>
    /\ worker' = <<>>
    /\ taskres' = <<>>
    /\ results' = <<>>
    /\ launched' = <<>>
    /\ trace' = <<>>
    /\ doneAtStart' = {p \in DOMAIN files : isRecFile(p)}
    /\ calls' = <<>>
    /\ written' = {}
    /\ UNCHANGED <<argv, DRY, files, dirs, zeroExits, stray,
                   checkVars>>

\* ------------------------------------------------------------ initial states
\* A CONTROL file with both dates, as shipped.
ControlBoth ==
    << [name |-> "START_DATE", nsp |-> 1, val |-> 20130101, tail |-> ""],
       [name |-> "END_DATE", nsp |-> 1, val |-> 20130102, tail |-> ""],
       [name |-> "CLASS", nsp |-> 1, val |-> 0, tail |-> "EI"] >>

\* A CONTROL file without an END_DATE line.
ControlNoEnd ==
    << [name |-> "CLASS", nsp |-> 1, val |-> 0, tail |-> "EI"],
       [name |-> "START_DATE", nsp |-> 2, val |-> 20130101, tail |-> " # first day"] >>

\* A CONTROL file in which neither line is one the patterns match: no space after
\* the name, or fewer than eight digits.
ControlNeither ==
    << [name |-> "START_DATE", nsp |-> 1, val |-> 2013, tail |-> ""],
       [name |-> "END_DATE", nsp |-> 0, val |-> 20130102, tail |-> ""] >>

ControlFiles == {ControlBoth, ControlNoEnd, ControlNeither}

\* The installation folder: submit.py and the default CONTROL file, each there or not.
installation(hasExe, hasCtrl, ctrl_str) ==
    LET paths == (IF hasExe THEN {exeFile} ELSE {}) \cup (IF hasCtrl THEN {ctrlFile} ELSE {})
    IN  [p \in paths |-> IF p = ctrlFile THEN ctrl_str ELSE <<>>]

\* The date k days after a date.
datePlus(date, k) == strftime(strptime(date) + k)

\* main is called with the arguments a, the global DRY being d, over the file system fs.
InitWith(a, d, fs) ==
    /\ argv = a
    /\ DRY = d
    /\ files = fs
    /\ dirs = {}
    /\ pc = "start"
    /\ date_list = <<>>
    /\ job_list = <<>>
    /\ taskq = <<>>
    /\ worker = <<>>
    /\ taskres = <<>>
    /\ results = <<>>
    /\ launched = <<>>
    /\ trace = <<>>
    /\ zeroExits = {}
    /\ doneAtStart = {p \in DOMAIN fs : isRecFile(p)}
    /\ invocation = 1
    /\ calls = <<>>
    /\ written = {}
    /\ stray = 0
    /\ time_list = <<>>
    /\ time_step = 0
    /\ time_interval = <<>>
    /\ mergepc = "idle"

\* The engine: short date ranges (also an empty one and days_per_job = 0), run by the
\* Pool.
EngineArgs ==
    [start_date : {20130227},
     end_date : {datePlus(20130227, k) : k \in (-1)..(MaxJobs - 1)},
     days_per_job : 0..1,
     n_workers : 1..MaxWorkers,
     time_out : {None, Seconds},
     time_out_retry : 0..MaxRetry,
     copy_control : {TRUE},
     dry : BOOLEAN]

\* The script's own call of main (line 431) passes the global DRY for dry.
Init ==
    \E a \in EngineArgs, hasExe \in BOOLEAN, hasCtrl \in BOOLEAN :
        InitWith(a, a.dry, installation(hasExe, hasCtrl, ControlBoth))

Next ==
    \/ GetDateList
    \/ CheckFiles
    \/ Prepare
    \/ Launch
    \/ \E w \in DOMAIN worker : TakeTask(w)
    \/ \E w \in DOMAIN worker : Popen(w)
    \/ \E w \in DOMAIN worker : PopenRaises(w)
    \/ \E w \in DOMAIN worker : LoopEnds(w)
    \/ \E w \in DOMAIN worker, code \in ExitCodes, made \in BOOLEAN : WaitExits(w, code, made)
    \/ \E w \in DOMAIN worker : WaitTimesOut(w)
    \/ \E w \in DOMAIN worker : TryRaises(w)
    \/ ProcessEnds
    \/ MapReturns

Spec == Init /\ [][Next]_vars

\* ------------------------------------------------- other specifications
\* breakDownDates alone, over date ranges that cross the end of a month, of a
\* February (of a leap year or not) and of a year.
StartDates == {20120227, 20121229, 20130203, 20130226}

setupArgs(start_date, end_date, days_per_job, copy_control) ==
    [start_date |-> start_date, end_date |-> end_date, days_per_job |-> days_per_job,
     n_workers |-> 1, time_out |-> None, time_out_retry |-> 0,
     copy_control |-> copy_control, dry |-> TRUE]

InitDates ==
    \E start_date \in StartDates, k \in (-1)..MaxSpan, days_per_job \in 0..MaxChunk :
        InitWith(setupArgs(start_date, datePlus(start_date, k), days_per_job, TRUE),
                 TRUE, installation(TRUE, TRUE, ControlBoth))

SpecDates == InitDates /\ [][GetDateList]_vars

\* The set-up of main alone (lines 403 to 413), over long and short ranges, with and
\* without the files of the installation.
InitBuild ==
    \E start_date \in {20121225, 20130203}, k \in (-1)..MaxSpan,
       days_per_job \in 0..MaxChunk, copy_control \in BOOLEAN,
       hasExe \in BOOLEAN, hasCtrl \in BOOLEAN, ctrl_str \in ControlFiles :
        InitWith(setupArgs(start_date, datePlus(start_date, k), days_per_job, copy_control),
                 TRUE, installation(hasExe, hasCtrl, ctrl_str))

NextBuild == GetDateList \/ CheckFiles \/ Prepare

SpecBuild == InitBuild /\ [][NextBuild]_vars

\* One job (a range of one day) run alone, by any caller of main: dry is any value,
\* whatever the global DRY is, and time_out_retry is any small integer.
AloneArgs ==
    [start_date : {20130206},
     end_date : {20130206},
     days_per_job : {1},
     n_workers : {1},
     time_out : {None, Seconds},
     time_out_retry : (-1)..MaxRetryAlone,
     copy_control : {TRUE},
     dry : BOOLEAN]

InitAlone ==
    \E a \in AloneArgs, d \in BOOLEAN :
        InitWith(a, d, installation(TRUE, TRUE, ControlBoth))

NextAgain == Next \/ Reinvoke

SpecAlone == InitAlone /\ [][NextAgain]_vars

\* The script run again and again over the file system it leaves, with processes
\* that exit (with 0 or not, having made their output directory or not): no time-out
\* is set and no call raises.
ResumeArgs ==
    [start_date : {20130227},
     end_date : {datePlus(20130227, k) : k \in 0..(MaxJobs - 1)},
     days_per_job : {1},
     n_workers : 1..MaxWorkers,
     time_out : {None},
     time_out_retry : {0},
     copy_control : BOOLEAN,
     dry : {FALSE}]

InitResume ==
    \E a \in ResumeArgs :
        InitWith(a, a.dry, installation(TRUE, TRUE, ControlBoth))

NextResume ==
    \/ GetDateList
    \/ CheckFiles
    \/ Prepare
    \/ Launch
    \/ \E w \in DOMAIN worker : TakeTask(w)
    \/ \E w \in DOMAIN worker : Popen(w)
    \/ \E w \in DOMAIN worker, code \in ExitCodes, made \in BOOLEAN : WaitExits(w, code, made)
    \/ MapReturns
    \/ Reinvoke

SpecResume == InitResume /\ [][NextResume]_vars

\* The scenario of the spec: the five days 20130203 to 20130207, one job a day, two
\* workers, a time-out set and two retries or the script's three; every process
\* exits with 0, but those of one job (any one) may be cut by the time-out first.
InitScenario ==
    \E time_out_retry \in 2..TIME_OUT_RETRY :
        InitWith([start_date |-> 20130203, end_date |-> 20130207, days_per_job |-> 1,
                  n_workers |-> 2, time_out |-> Seconds,
                  time_out_retry |-> time_out_retry, copy_control |-> TRUE,
                  dry |-> FALSE],
                 FALSE, installation(TRUE, TRUE, ControlBoth))

NextScenario ==
    \/ GetDateList
    \/ CheckFiles
    \/ Prepare
    \/ Launch
    \/ \E w \in DOMAIN worker : TakeTask(w)
    \/ \E w \in DOMAIN worker : Popen(w)
    \/ \E w \in DOMAIN worker : LoopEnds(w)
    \/ \E w \in DOMAIN worker, made \in BOOLEAN : WaitExits(w, 0, made)
    \/ \E w \in DOMAIN worker :
          /\ worker[w].st = "wait"
          /\ \A k \in DOMAIN trace : k # jobOf(w) => trace[k] \in {<<>>, <<exited(0)>>}
          /\ WaitTimesOut(w)
    \/ ProcessEnds
    \/ MapReturns

SpecScenario == InitScenario /\ [][NextScenario]_vars

\* A batch of MaxBatch jobs of one day each, or one fewer, for one worker or two (so
\* that pool.map makes chunks of one, two or three jobs), with no time-out: every
\* process exits with 0, having made its output directory, unless Popen raises.
BatchArgs ==
    [start_date : {20130203},
     end_date : {datePlus(20130203, k) : k \in (MaxBatch - 2)..(MaxBatch - 1)},
     days_per_job : {1},
     n_workers : {1, 2},
     time_out : {None},
     time_out_retry : {0},
     copy_control : {TRUE},
     dry : {FALSE}]

InitBatch ==
    \E a \in BatchArgs :
        InitWith(a, a.dry, installation(TRUE, TRUE, ControlBoth))

NextBatch ==
    \/ GetDateList
    \/ CheckFiles
    \/ Prepare
    \/ Launch
    \/ \E w \in DOMAIN worker : TakeTask(w)
    \/ \E w \in DOMAIN worker : Popen(w)
    \/ \E w \in DOMAIN worker : PopenRaises(w)
    \/ \E w \in DOMAIN worker : WaitExits(w, 0, TRUE)
    \/ MapReturns

SpecBatch == InitBatch /\ [][NextBatch]_vars

\* The script run once, with and without copies of the CONTROL file, while the
\* default CONTROL file is changed at any moment, any number of times.
NextEdit ==
    \/ GetDateList
    \/ CheckFiles
    \/ Prepare
    \/ Launch
    \/ \E w \in DOMAIN worker : TakeTask(w)
    \/ \E w \in DOMAIN worker : Popen(w)
    \/ \E w \in DOMAIN worker, code \in ExitCodes, made \in BOOLEAN : WaitExits(w, code, made)
    \/ MapReturns
    \/ \E ctrl_str \in ControlFiles : EditControl(ctrl_str)

SpecEdit == InitResume /\ [][NextEdit]_vars

\* ------------------------------------------------ check_files.py
\* b - a for two datetimes a <= b (in hours): a timedelta keeps the whole days and
\* the seconds of the rest of a day apart.
timedelta(a, b) == [days |-> (b - a) \div 24, seconds |-> ((b - a) % 24) * 3600]

\* time_list.sort()
RECURSIVE insertSorted(_, _)
insertSorted(x, s) ==
    IF s = <<>> THEN <<x>>
    ELSE IF x <= Head(s) THEN <<x>> \o s
    ELSE <<Head(s)>> \o insertSorted(x, Tail(s))

RECURSIVE sort(_)
sort(s) == IF s = <<>> THEN <<>> ELSE insertSorted(Head(s), sort(Tail(s)))

\* Line 80: (time_list[ii+1]-time_list[ii]).seconds/3600 > time_step
isBreak(t1, t2, step) == timedelta(t1, t2).seconds \div 3600 > step

\* Lines 78 to 81: index, the places (counted from 0) at which a new interval starts.
breakIndex(tl, step) ==
    SelectSeq([ii \in 1..(Len(tl) - 1) |-> ii], LAMBDA ii : isBreak(tl[ii], tl[ii + 1], step))

\* Lines 83 to 86, for a sorted, non-empty time_list: the slices between the places
\* of index, and the first and the last point of each.
mergeContinuousTime(tl, step) ==
    LET index == breakIndex(tl, step)
        starts == <<0>> \o index
        ends == index \o <<Len(tl)>>
    IN  [n \in 1..Len(starts) |-> <<tl[starts[n] + 1], tl[ends[n]]>>]

\* mergeContinuousTime is called: time_list is sorted in place; for an empty list the
\* one slice is empty and ii[0] raises (line 84).
Merge ==
    /\ mergepc = "start"
    /\ time_list' = sort(time_list)
    /\ IF time_list = <<>>
       THEN mergepc' = "raised" /\ time_interval' = time_interval
       ELSE /\ mergepc' = "done"
            /\ time_interval' = mergeContinuousTime(sort(time_list), time_step)
    /\ UNCHANGED <<time_step, mainVars>>

\* The time points lists are made of: hours of three days in a row.
TimePoints == {0, 3, 6, 24, 27, 30, 51}

RECURSIVE seqsUpTo(_, _)
seqsUpTo(S, n) ==
    IF n = 0 THEN {<<>>}
    ELSE LET shorter == seqsUpTo(S, n - 1)
         IN  shorter \cup {Append(s, x) : s \in shorter, x \in S}

\* mergeContinuousTime alone, for lists in any order, with the time_step of the
\* script (3, line 105) and with 6.
InitMerge ==
    /\ argv = setupArgs(20130203, 20130207, 1, TRUE)
    /\ DRY = TRUE
    /\ files = installation(TRUE, TRUE, ControlBoth)
    /\ dirs = {}
    /\ pc = "start"
    /\ date_list = <<>>
    /\ job_list = <<>>
    /\ taskq = <<>>
    /\ worker = <<>>
    /\ taskres = <<>>
    /\ results = <<>>
    /\ launched = <<>>
    /\ trace = <<>>
    /\ zeroExits = {}
    /\ doneAtStart = {}
    /\ invocation = 1
    /\ calls = <<>>
    /\ written = {}
    /\ stray = 0
    /\ time_list \in seqsUpTo(TimePoints, MaxPoints)
    /\ time_step \in {3, 6}
    /\ time_interval = <<>>
    /\ mergepc = "start"

SpecMerge == InitMerge /\ [][Merge]_vars

\* ------------------------------------------------------------------ claims
allTimeouts(tr) == \A i \in 1..Len(tr) : tr[i] = timedOut

outDirOf(k) == argAfter(job_list[k].args, <<"--outputdir">>)

hasRecord(k) == recFile(outDirOf(k)) \in DOMAIN files

\* C1: with time_out set and time_out_retry >= 0, a job all of whose attempts time
\* out is never launched more than time_out_retry + 1 times, and when launchJob
\* returns for it, it was launched exactly time_out_retry + 1 times, the value
\* returned is not 0 and no record file of the job was written.
RetryBound ==
    \A k \in DOMAIN trace :
        ( /\ job_list[k].retry >= 0
          /\ job_list[k].timeout # None
          /\ allTimeouts(trace[k]) )
        => /\ launched[k] <= job_list[k].retry + 1
           /\ hasReturned(k) =>
                 /\ launched[k] = job_list[k].retry + 1
                 /\ Len(trace[k]) = job_list[k].retry + 1
                 /\ retOf(k) # 0
                 /\ ~hasRecord(k)

\* A job with at least two retries has timed out on every attempt and has ended.
RetryBoundWitness ==
    \E k \in DOMAIN trace :
        /\ job_list[k].retry >= 2
        /\ hasReturned(k)
        /\ trace[k] # <<>>
        /\ allTimeouts(trace[k])
        /\ launched[k] = job_list[k].retry + 1

\* C2: an attempt that exits with a code other than 0 is the last attempt of its
\* job: launchJob returns at once with that code, no record file is written, and a
\* job whose first attempt ends so was launched exactly once.
NoRetryOnCleanFailure ==
    \A k \in DOMAIN trace : \A i \in 1..Len(trace[k]) : \A code \in ExitCodes \ {0} :
        trace[k][i] = exited(code)
        => /\ i = Len(trace[k])
           /\ launched[k] = i
           /\ hasReturned(k)
           /\ retOf(k) = code
           /\ ~hasRecord(k)

\* A job that could have been retried three times exited with 7 on its first attempt.
NoRetryOnCleanFailureWitness ==
    \E k \in DOMAIN trace :
        /\ job_list[k].retry >= 3
        /\ job_list[k].timeout # None
        /\ trace[k] = <<exited(7)>>
        /\ launched[k] = 1
        /\ hasReturned(k)

RECURSIVE sumTo(_, _)
sumTo(f, n) == IF n = 0 THEN 0 ELSE sumTo(f, n - 1) + f[n]

\* The number of processes started in this call of main.
totalLaunched == sumTo(launched, Len(launched))

\* Every chunk of the date range had its record file when main was called.
allDoneAtStart ==
    /\ date_list # <<>>
    /\ \A i \in 1..Len(date_list) : recFile(jobOutDir(i, date_list)) \in doneAtStart

\* The Pool was made in this call of main.
poolMade == DOMAIN worker # {}

\* C3: when main is called and every chunk of the range already has its job_done
\* file, prepareJobList returns an empty job_list, no task is handed to the Pool and
\* no process is started.
Idempotence ==
    (pc \in {"prepared", "map", "done"} /\ allDoneAtStart)
    => /\ job_list = <<>>
       /\ taskq = <<>>
       /\ totalLaunched = 0
       /\ \A w \in DOMAIN worker : worker[w].st = "idle"

\* A second run over a range of two chunks or more, all done, has ended.
IdempotenceWitness ==
    /\ invocation >= 2
    /\ pc = "done"
    /\ poolMade
    /\ Len(date_list) >= 2
    /\ allDoneAtStart
    /\ results = <<>>

\* C4: a job_done file exists only in the output directory of a job whose last
\* attempt exited with 0 (so never before or during an attempt, nor after a
\* time-out, an exit with another code or an error), and only where some process
\* of that job exited with 0.
MarkerSafety ==
    \A p \in DOMAIN files :
        isRecFile(p)
        => /\ \E k \in DOMAIN trace :
                 /\ p = recFile(outDirOf(k))
                 /\ trace[k] # <<>>
                 /\ trace[k][Len(trace[k])] = exited(0)
                 /\ hasReturned(k)
           /\ \E d \in zeroExits : p = recFile(d)

\* Of two jobs, one has its job_done file, written after a time-out and a retry; the
\* other has exited with 7, in an output directory that exists, and has none.
MarkerSafetyWitness ==
    \E k, j \in DOMAIN trace :
        /\ hasRecord(k)
        /\ trace[k] = <<timedOut, exited(0)>>
        /\ trace[j] = <<exited(7)>>
        /\ outDirOf(j) \in dirs
        /\ ~hasRecord(j)

\* C5: once the batch is over, pool.map has returned one value for every job of
\* job_list, every job was attempted, and a value is 0 exactly for the jobs whose
\* last attempt exited with 0, whatever happened to the other jobs.
FailureContainment ==
    (pc \in {"done", "raised"} /\ poolMade)
    => /\ pc = "done"
       /\ Len(results) = Len(job_list)
       /\ \A k \in DOMAIN trace :
             /\ trace[k] # <<>>
             /\ results[k] = 0 <=> trace[k][Len(trace[k])] = exited(0)

\* C6: a job whose Popen call raises is not attempted again, gets no job_done
\* file, and launchJob returns a value other than 0 for it; main does not end with
\* the error.
LaunchErrorContained ==
    /\ \A k \in DOMAIN trace :
          (trace[k] # <<>> /\ trace[k][Len(trace[k])] = launchError)
          => /\ hasReturned(k)
             /\ retOf(k) # 0
             /\ ~hasRecord(k)
             /\ launched[k] = Len(trace[k]) - 1
    /\ poolMade => pc # "raised"

\* A date string names a day of the calendar.
validDate(d) ==
    LET m == (d \div 100) % 100
    IN  /\ m \in 1..12
        /\ (d % 100) \in 1..DaysInMonth(d \div 10000, m)

\* C7: for start_date <= end_date and days_per_job >= 1, breakDownDates raises
\* nothing and returns a non-empty list of chunks of valid dates: the first starts
\* at start_date, every chunk has start <= end, every next chunk starts the day
\* after the one before it ends, and the last ends at end_date. (The range
\* 20130203-20130207 in chunks of 2 days gives the three chunks of the spec.)
PartitionCoverage ==
    /\ ( /\ pc = "raised"
         /\ argv.days_per_job >= 1 )
       => strptime(argv.start_date) > strptime(argv.end_date)
    /\ pc = "dates"
       => /\ date_list # <<>>
          /\ date_list[1][1] = argv.start_date
          /\ date_list[Len(date_list)][2] = argv.end_date
          /\ \A i \in 1..Len(date_list) :
                /\ validDate(date_list[i][1])
                /\ validDate(date_list[i][2])
                /\ date_list[i][1] <= date_list[i][2]
          /\ \A i \in 1..(Len(date_list) - 1) :
                /\ strptime(date_list[i + 1][1]) = strptime(date_list[i][2]) + 1
                /\ date_list[i][2] < date_list[i + 1][1]
    /\ ( /\ pc = "dates"
         /\ argv.start_date = 20130203
         /\ argv.end_date = 20130207
         /\ argv.days_per_job = 2 )
       => date_list = << <<20130203, 20130204>>, <<20130205, 20130206>>,
                         <<20130207, 20130207>> >>

\* A range that crosses the 29th of February 2012, cut in four chunks, the last one
\* shorter than the others.
PartitionCoverageWitness ==
    /\ pc = "dates"
    /\ argv.start_date = 20120227
    /\ argv.days_per_job = 3
    /\ Len(date_list) = 4
    /\ date_list[1] = <<20120227, 20120229>>
    /\ date_list[2] = <<20120301, 20120303>>
    /\ date_list[4][1] = date_list[4][2]

ctrlOf(k) == argAfter(job_list[k].args, <<"--controlfile">>)
inDirOf(k) == argAfter(job_list[k].args, <<"--inputdir">>)

\* C8: with copy_control, any two jobs of job_list have different CONTROL files and
\* different log files, and the input and output directories of the two jobs are
\* four different directories; the CONTROL file of a job is not the default one.
Isolation ==
    (pc = "prepared" /\ argv.copy_control)
    => /\ \A j, k \in 1..Len(job_list) :
             j # k
             => /\ ctrlOf(j) # ctrlOf(k)
                /\ job_list[j].logfile # job_list[k].logfile
                /\ Cardinality({inDirOf(j), outDirOf(j), inDirOf(k), outDirOf(k)}) = 4
       /\ \A k \in 1..Len(job_list) :
             /\ inDirOf(k) # outDirOf(k)
             /\ ctrlOf(k) # ctrlFile
             /\ ctrlOf(k) \in DOMAIN files

\* A batch of more than ten jobs (ids of two digits) with copies of the CONTROL file.
IsolationWitness ==
    /\ pc = "prepared"
    /\ argv.copy_control
    /\ Len(job_list) > 10
    /\ job_list[1].job_dates[1] = <<"0", "0">>
    /\ job_list[11].job_dates[1] = <<"1", "0">>

\* C9: a job that times out n times (n <= time_out_retry) and then exits with 0 has
\* been launched n + 1 times, launchJob returns 0 for it, and its job_done file is
\* written (iff its output directory exists); pool.map returns to main, in the order
\* of job_list, what launchJob returned for each job, so that in the batch of five
\* jobs and two workers in which one job timed out twice before it exited with 0
\* and the others exited with 0 at once, the results are five 0.
TimeoutThenSuccess ==
    /\ \A k \in DOMAIN trace : \A n \in 0..job_list[k].retry :
          ( /\ Len(trace[k]) = n + 1
            /\ allTimeouts(SubSeq(trace[k], 1, n))
            /\ trace[k][n + 1] = exited(0) )
          => /\ hasReturned(k)
             /\ retOf(k) = 0
             /\ launched[k] = n + 1
             /\ hasRecord(k) <=> outDirOf(k) \in dirs
    /\ pc = "done"
       => /\ Len(results) = Len(job_list)
          /\ \A k \in DOMAIN trace : results[k] = retOf(k)
    /\ ( /\ pc = "done"
         /\ \A k \in DOMAIN trace : trace[k][Len(trace[k])] = exited(0) )
       => results = [k \in 1..Len(job_list) |-> 0]

\* The batch of five jobs and two workers has ended; the third job timed out twice and
\* exited with 0 at its third launch, the others exited with 0 at once; all five
\* results are 0 and the third job has its job_done file.
TimeoutThenSuccessWitness ==
    /\ pc = "done"
    /\ Len(job_list) = 5
    /\ argv.n_workers = 2
    /\ trace[3] = <<timedOut, timedOut, exited(0)>>
    /\ \A k \in {1, 2, 4, 5} : trace[k] = <<exited(0)>>
    /\ launched[3] = 3
    /\ hasRecord(3)
    /\ results = <<0, 0, 0, 0, 0>>

\* C10: when main is called with dry true, no Pool is made, no process is started
\* and no job_done file is created; when it is called with dry false and ends, the
\* Pool was made and launchJob was run for every job of job_list.
DryRun ==
    /\ argv.dry
       => /\ ~poolMade
          /\ totalLaunched = 0
          /\ {p \in DOMAIN files : isRecFile(p)} \subseteq doneAtStart
    /\ (~argv.dry /\ pc = "done")
       => /\ poolMade
          /\ \A k \in 1..Len(job_list) : hasReturned(k)

\* C11: launchJob is called at most once for every job of job_list; when the batch
\* is over it was called exactly once for every job and has returned for it, and
\* pool.map has handed main one result for every job; no result is handed to main
\* before launchJob has returned for every job.
BatchCompletes ==
    /\ \A k \in DOMAIN calls : calls[k] <= 1
    /\ (poolMade /\ pc \in {"done", "raised"})
       => /\ pc = "done"
          /\ \A k \in DOMAIN calls : calls[k] = 1 /\ hasReturned(k)
          /\ Len(results) = Len(job_list)
    /\ results # <<>> => \A k \in DOMAIN calls : hasReturned(k)

\* The jobs launchJob is running, and the processes of this batch that are alive:
\* those a worker waits for and those let go of that have not ended yet.
running == Cardinality({w \in DOMAIN worker : worker[w].st # "idle"})
alive == Cardinality({w \in DOMAIN worker : worker[w].st = "wait"}) + stray

\* C12: once the Pool of n_workers workers is made, never more than n_workers jobs
\* are being run and never more than n_workers processes are alive, also between
\* the kill of a process that timed out and the end of the next attempt of its job.
ConcurrencyBound ==
    poolMade => /\ running <= argv.n_workers
                /\ alive <= argv.n_workers

\* No call of Popen has raised in this batch.
noLaunchError ==
    \A k \in DOMAIN trace : \A n \in 1..Len(trace[k]) : trace[k][n] # launchError

\* C13: in a batch without launch errors, when a process has been started for job j,
\* launchJob has been called for every job i before j in job_list. (The claim says
\* more: that a process has been started for job i by then. A job for which
\* launchJob was called is at most the opening of its log away from its first Popen.)
DispatchOrder ==
    noLaunchError
    => \A i, j \in DOMAIN launched :
          (i < j /\ launched[j] > 0) => calls[i] > 0

\* The place of a chunk among the n chunks of the range, counted from 0 and padded
\* with zeros, and the output directory that is named after it and the chunk's dates.
ordinal(i, n) == rjust(str(i - 1), Len(str(n)))

outDirAt(i) ==
    join(OUTPUTDIR, JOB_PREFIX \o <<"_">> \o ordinal(i, Len(date_list)) \o <<"_">>
                    \o dateName(date_list[i])) \o <<"_out">>

\* The chunks that had no job_done file when main was called.
notDoneAtStart == {i \in 1..Len(date_list) : recFile(outDirAt(i)) \notin doneAtStart}

\* C14: in every call of main (the first, and the next ones over the files the
\* earlier ones left), the id of the chunk at place i is its place, and its output
\* directory is named after the place and the dates, however many chunks are
\* skipped: every job_done file and every output directory that earlier calls left
\* is that of a chunk of this call; job_list holds exactly the chunks without a
\* job_done file, in order, and when main ends a process was started for each of them.
Resumability ==
    pc \in {"prepared", "map", "done"}
    => /\ doneAtStart \subseteq {recFile(outDirAt(i)) : i \in 1..Len(date_list)}
       /\ dirs \cup zeroExits \subseteq {outDirAt(i) : i \in 1..Len(date_list)}
       /\ Len(job_list) = Cardinality(notDoneAtStart)
       /\ \A i \in notDoneAtStart : \E k \in 1..Len(job_list) :
             /\ job_list[k].job_dates =
                    <<ordinal(i, Len(date_list)), date_list[i][1], date_list[i][2]>>
             /\ outDirOf(k) = outDirAt(i)
       /\ \A j, k \in 1..Len(job_list) :
             j < k => job_list[j].job_dates[2] < job_list[k].job_dates[2]
       /\ pc = "done" => \A k \in 1..Len(job_list) : launched[k] >= 1

\* A second call of main over two chunks: the first has its job_done file and is
\* skipped; the second was run by the first call, which made its output directory
\* but left no job_done file (it failed), and is the only job, with the id 1.
ResumabilityWitness ==
    /\ invocation = 2
    /\ pc = "prepared"
    /\ Len(date_list) = 2
    /\ recFile(outDirAt(1)) \in doneAtStart
    /\ outDirAt(2) \in dirs
    /\ notDoneAtStart = {2}
    /\ Len(job_list) = 1
    /\ job_list[1].job_dates[1] = <<"1">>

\* One of the four errors of the set-up: start_date after end_date, days_per_job
\* below 1, no submit.py, no default CONTROL file.
setupError ==
    \/ strptime(argv.start_date) > strptime(argv.end_date)
    \/ argv.days_per_job < 1
    \/ exeFile \notin DOMAIN files
    \/ ctrlFile \notin DOMAIN files

\* C15: with one of the four errors of the set-up, main never gets past the checks
\* (it is at them or has raised): no file is opened for writing and none is added to
\* the file system, job_list stays empty, no Pool is made, launchJob is not called
\* and no process is started.
SetupErrorsAbort ==
    setupError
    => /\ pc \in {"start", "dates", "raised"}
       /\ written = {}
       /\ DOMAIN files \subseteq {exeFile, ctrlFile}
       /\ job_list = <<>>
       /\ ~poolMade
       /\ taskq = <<>>
       /\ calls = <<>>
       /\ launched = <<>>
       /\ stray = 0

\* main has raised for a range of two chunks because only the default CONTROL file is
\* missing.
SetupErrorsAbortWitness ==
    /\ pc = "raised"
    /\ Len(date_list) = 2
    /\ exeFile \in DOMAIN files
    /\ ctrlFile \notin DOMAIN files
    /\ written = {}

\* C16: a job whose last attempt exited with 0 has ended, launchJob has returned 0
\* for it, and its job_done file exists iff its output directory does (launchJob
\* makes no directory: one that the process did not make is still missing, and then
\* no job_done file is written); a chunk for which a process exited with 0 but that
\* had no job_done file when main was called again is not skipped by that call.
MarkerOnSuccess ==
    /\ \A k \in DOMAIN trace :
          (trace[k] # <<>> /\ trace[k][Len(trace[k])] = exited(0))
          => /\ hasReturned(k)
             /\ retOf(k) = 0
             /\ hasRecord(k) <=> outDirOf(k) \in dirs
    /\ pc \in {"prepared", "map", "done"}
       => \A i \in 1..Len(date_list) :
             (outDirAt(i) \in zeroExits /\ recFile(outDirAt(i)) \notin doneAtStart)
             => \E k \in 1..Len(job_list) : outDirOf(k) = outDirAt(i)

\* A second call of main over two chunks, both of which had a process exit with 0 in
\* the first call: the first in an output directory that existed, so that it has its
\* job_done file and is skipped; the second in one that did not and still does not
\* exist, so that it has none and is the one job of job_list.
MarkerOnSuccessWitness ==
    /\ invocation = 2
    /\ pc = "prepared"
    /\ Len(date_list) = 2
    /\ {outDirAt(1), outDirAt(2)} \subseteq zeroExits
    /\ outDirAt(1) \in dirs
    /\ recFile(outDirAt(1)) \in DOMAIN files
    /\ outDirAt(2) \notin dirs
    /\ recFile(outDirAt(2)) \notin DOMAIN files
    /\ Len(job_list) = 1
    /\ outDirOf(1) = outDirAt(2)

\* The CONTROL file the k-th job of a job list is called with, and its two dates.
ctrlIn(jl, k) == argAfter(jl[k].args, <<"--controlfile">>)
datesIn(jl, k) == <<jl[k].job_dates[2], jl[k].job_dates[3]>>

\* C17: the step of main that builds job_list gives every job, with copy_control, a
\* CONTROL file of its own whose contents are those of the default CONTROL file at
\* that moment with the two dates of the job, and without copy_control the default
\* CONTROL file itself; no later step of the same call (a change of the default
\* CONTROL file least of all) changes job_list or, with copy_control, the contents
\* of the CONTROL file of a job.
ConfigSnapshotStep ==
    /\ (pc = "checked" /\ pc' = "prepared")
       => \A k \in 1..Len(job_list') :
             IF argv.copy_control
             THEN /\ ctrlIn(job_list', k) # ctrlFile
                  /\ files'[ctrlIn(job_list', k)] =
                        replaceControlDates(files[ctrlFile], datesIn(job_list', k)[1],
                                            datesIn(job_list', k)[2])
             ELSE ctrlIn(job_list', k) = ctrlFile
    /\ (pc \in {"prepared", "map", "done"} /\ invocation' = invocation)
       => /\ job_list' = job_list
          /\ argv.copy_control
             => \A k \in 1..Len(job_list) :
                   files'[ctrlIn(job_list, k)] = files[ctrlIn(job_list, k)]

ConfigSnapshot == [][ConfigSnapshotStep]_vars

\* Two jobs with copies, built when the default CONTROL file was the one with both
\* dates; the default file has since been replaced by the one without an END_DATE
\* line, and the copies still are the old contents with each job's dates.
ConfigSnapshotWitness ==
    /\ pc \in {"prepared", "map"}
    /\ argv.copy_control
    /\ Len(job_list) = 2
    /\ files[ctrlFile] = ControlNoEnd
    /\ \A k \in 1..2 :
          /\ files[ctrlOf(k)] =
                replaceControlDates(ControlBoth, datesIn(job_list, k)[1],
                                    datesIn(job_list, k)[2])
          /\ files[ctrlOf(k)] #
                replaceControlDates(files[ctrlFile], datesIn(job_list, k)[1],
                                    datesIn(job_list, k)[2])

\* The fields of a document doc that have no assignment line in it, among START_DATE
\* and END_DATE.
missingFields(doc) ==
    {name \in {"START_DATE", "END_DATE"} :
        \A i \in 1..Len(doc) : ~lineMatches(name, doc[i])}

\* The document out is the document base rewritten by the rule for the dates sd, ed:
\* a new line for every missing field on top, then the lines of base in their order,
\* an assignment line with its value replaced (and one space before it), any other
\* line as it is.
rewritten(base, out, sd, ed) ==
    LET pre == Cardinality(missingFields(base))
        bound(name) == IF name = "START_DATE" THEN sd ELSE ed
    IN  /\ Len(out) = pre + Len(base)
        /\ \A name \in missingFields(base) : \E i \in 1..pre :
              out[i] = [name |-> name, nsp |-> 1, val |-> bound(name), tail |-> ""]
        /\ \A i \in 1..Len(base) :
              out[pre + i] =
                 IF \E name \in {"START_DATE", "END_DATE"} : lineMatches(name, base[i])
                 THEN [base[i] EXCEPT !.nsp = 1, !.val = bound(base[i].name)]
                 ELSE base[i]

\* C18: the CONTROL file written for a job is the default one rewritten by the rule
\* for the job's dates; when the default one has no END_DATE assignment its first or
\* second line is the new END_DATE line; and replaceControlDates applied to the
\* rewritten document with the same dates gives the same document.
RewriteRule ==
    (pc = "prepared" /\ argv.copy_control)
    => \A k \in 1..Len(job_list) :
          LET base == files[ctrlFile]
              out == files[ctrlOf(k)]
              sd == job_list[k].job_dates[2]
              ed == job_list[k].job_dates[3]
          IN  /\ rewritten(base, out, sd, ed)
              /\ "END_DATE" \in missingFields(base)
                 => \E i \in 1..2 :
                       out[i] = [name |-> "END_DATE", nsp |-> 1, val |-> ed, tail |-> ""]
              /\ missingFields(out) = {}
              /\ replaceControlDates(out, sd, ed) = out

\* The scenario of the spec: a CONTROL file without an END_DATE line, rewritten for
\* the chunk 20130205-20130206, has END_DATE 20130206 as its new first line and its
\* START_DATE line carries 20130205; the CLASS line is as it was.
RewriteRuleWitness ==
    /\ pc = "prepared"
    /\ argv.copy_control
    /\ files[ctrlFile] = ControlNoEnd
    /\ \E k \in 1..Len(job_list) :
          /\ job_list[k].job_dates[2] = 20130205
          /\ job_list[k].job_dates[3] = 20130206
          /\ files[ctrlOf(k)] =
                << [name |-> "END_DATE", nsp |-> 1, val |-> 20130206, tail |-> ""],
                   [name |-> "CLASS", nsp |-> 1, val |-> 0, tail |-> "EI"],
                   [name |-> "START_DATE", nsp |-> 1, val |-> 20130205,
                    tail |-> " # first day"] >>

\* The number of days of a chunk, both ends counted.
spanDays(dateii) == strptime(dateii[2]) - strptime(dateii[1]) + 1

\* C19: for start_date <= end_date and days_per_job >= 1, every chunk but the last
\* has exactly days_per_job days (it ends days_per_job - 1 days after it starts),
\* the last has between 1 and days_per_job days, there are
\* ceil(days / days_per_job) chunks, days being the number of days from start_date
\* to end_date with both counted, and if days_per_job >= days the one chunk is
\* (start_date, end_date).
ChunkLength ==
    pc = "dates"
    => LET n == Len(date_list)
           c == argv.days_per_job
           days == spanDays(<<argv.start_date, argv.end_date>>)
       IN  /\ \A i \in 1..(n - 1) :
                 /\ spanDays(date_list[i]) = c
                 /\ date_list[i][2] = datePlus(date_list[i][1], c - 1)
           /\ spanDays(date_list[n]) \in 1..c
           /\ n = (days + c - 1) \div c
           /\ c >= days => date_list = << <<argv.start_date, argv.end_date>> >>

\* A range of eleven days that starts on the 29th of December 2012, in chunks of four
\* days: three chunks, the first ends on the first day of 2013, the last has three
\* days.
ChunkLengthWitness ==
    /\ pc = "dates"
    /\ argv.start_date = 20121229
    /\ argv.end_date = 20130108
    /\ argv.days_per_job = 4
    /\ date_list = << <<20121229, 20130101>>, <<20130102, 20130105>>,
                      <<20130106, 20130108>> >>

\* The chunks that had their job_done file when main was called.
doneChunks == {i \in 1..Len(date_list) : recFile(outDirAt(i)) \in doneAtStart}

\* For a chunk that had its job_done file when main was called, this call of main
\* has opened for writing neither its copy of the CONTROL file, nor its log, nor its
\* job_done file; no job of job_list is for it (so launchJob is not called and no
\* process is started for it); its job_done file and its output directory are there.
doneUntouched ==
    \A i \in doneChunks :
        /\ jobCtrlFile(i, date_list, ctrlFile) \notin written
        /\ jobLogFile(i, date_list) \notin written
        /\ recFile(outDirAt(i)) \notin written
        /\ \A k \in 1..Len(job_list) :
              /\ outDirOf(k) # outDirAt(i)
              /\ job_list[k].logfile # jobLogFile(i, date_list)
        /\ recFile(outDirAt(i)) \in DOMAIN files
        /\ files[recFile(outDirAt(i))] = <<"job done.">>
        /\ outDirAt(i) \in dirs

\* No step removes a job_done file or an output directory.
recordsKept ==
    /\ \A p \in DOMAIN files : isRecFile(p) => p \in DOMAIN files'
    /\ dirs \subseteq dirs'

\* C20: a chunk whose job_done file exists when main is called is left alone by that
\* call (no copy of the CONTROL file written, log not opened, no process, job_done
\* file and output directory as they were), and no step of the script ever removes
\* a job_done file.
CompletedUntouched == []doneUntouched /\ [][recordsKept]_vars

\* A second call of main with copy_control over two chunks has ended: the first chunk
\* was done and nothing of it was written; the second was run again, its copy of the
\* CONTROL file and its log were written.
CompletedUntouchedWitness ==
    /\ invocation = 2
    /\ pc = "done"
    /\ argv.copy_control
    /\ Len(date_list) = 2
    /\ doneChunks = {1}
    /\ Len(job_list) = 1
    /\ launched[1] = 1
    /\ written \cap {jobCtrlFile(1, date_list, ctrlFile), jobLogFile(1, date_list)} = {}
    /\ {jobCtrlFile(2, date_list, ctrlFile), jobLogFile(2, date_list)} \subseteq written

\* C21: for any integer retry, a job is launched at most retry + 1 times; every
\* launch but the last was ended by a time-out (so a launch after the first comes
\* directly after a time-out and the kill); launchJob returns only after at least
\* one launch; and it returns 0 only if the last launch exited with 0.
AttemptCount ==
    \A k \in DOMAIN trace :
        /\ launched[k] <= job_list[k].retry + 1
        /\ \A n \in 1..(launched[k] - 1) : trace[k][n] = timedOut
        /\ hasReturned(k)
           => /\ launched[k] >= 1
              /\ retOf(k) = 0
                 => /\ Len(trace[k]) = launched[k]
                    /\ trace[k][launched[k]] = exited(0)

\* The places of the sorted time_list after which the next point is more than
\* time_step hours later.
gapsAbove ==
    {i \in 1..(Len(time_list) - 1) : time_list[i + 1] - time_list[i] > time_step}

\* C22: mergeContinuousTime returns one interval more than there are gaps above
\* time_step hours between consecutive points of the sorted list: the first starts at
\* the first point, the last ends at the last point, an interval ends and the next
\* starts exactly at every such gap (a gap of whole days too), and at no other place.
MergeSplits ==
    mergepc = "done"
    => /\ Len(time_interval) = Cardinality(gapsAbove) + 1
       /\ time_interval[1][1] = time_list[1]
       /\ time_interval[Len(time_interval)][2] = time_list[Len(time_list)]
       /\ \A i \in gapsAbove : \E n \in 1..(Len(time_interval) - 1) :
             /\ time_interval[n][2] = time_list[i]
             /\ time_interval[n + 1][1] = time_list[i + 1]
       /\ \A n \in 1..(Len(time_interval) - 1) :
             time_interval[n + 1][1] - time_interval[n][2] > time_step

====
